---------------------------- MODULE Spec2Model ----------------------------
(***************************************************************************)
(* The USDA NASS Quick Stats MCP server (server.py) as a state machine.    *)
(*                                                                         *)
(* State: the process environment, the module globals API_KEY and FORMAT   *)
(* set when the module is loaded, and one tool invocation: its argument,   *)
(* the outbound request httpx.get issued, the response the service gave    *)
(* and what the tool returned or raised.                                   *)
(*                                                                         *)
(* A Python dict is an ordered mapping: it is modelled as a sequence of    *)
(* <<key, value>> pairs with pairwise distinct keys, in insertion order.   *)
(* A header value is a sequence of characters, so that str.lower() and the *)
(* substring test of api() are computed and not assumed.                   *)
(***************************************************************************)
EXTENDS Naturals, Sequences, FiniteSets, TLC

VARIABLES environ, proc, API_KEY, FORMAT,
          tool, arg, stage, request, sent, response, result

vars == <<environ, proc, API_KEY, FORMAT,
          tool, arg, stage, request, sent, response, result>>

-----------------------------------------------------------------------------
(* Bound of the model: the most filter entries (commodity, location and time
   together) in one query. *)
MaxFields == 3

(* Python's None: a token distinct from every string the model draws. *)
None == "<None>"

-----------------------------------------------------------------------------
(* Definitions (server.py 14-21) *)

URL(endpoint) == "https://quickstats.nass.usda.gov/api/" \o endpoint

AVAILABLE_FORMATS == <<"JSON", "CSV", "XML">>

(* x in list *)
InList(x, list) == \E i \in 1..Len(list) : list[i] = x

(* os.getenv(name): the value, or None when the variable is not set. *)
getenv(env, name) == env[name]

(* os.getenv(name, default) *)
getenv_default(env, name, default) ==
    IF env[name] = None THEN default ELSE env[name]

-----------------------------------------------------------------------------
(* Python dicts *)

Keys(d) == [i \in 1..Len(d) |-> d[i][1]]

Has(d, k) == \E i \in 1..Len(d) : d[i][1] = k

Get(d, k) == d[CHOOSE i \in 1..Len(d) : d[i][1] = k][2]

(* d.get(k, default) *)
GetDefault(d, k, default) == IF Has(d, k) THEN Get(d, k) ELSE default

(* d[k] = v: a key already present keeps its position and takes the new
   value; a new key is appended. *)
SetItem(d, k, v) ==
    IF Has(d, k)
    THEN [i \in 1..Len(d) |-> IF d[i][1] = k THEN <<k, v>> ELSE d[i]]
    ELSE Append(d, <<k, v>>)

(* {**d, **e}: the items of e are set into d one by one, in e's order. *)
RECURSIVE Unpack(_, _)
Unpack(d, e) ==
    IF e = <<>> THEN d
    ELSE Unpack(SetItem(d, Head(e)[1], Head(e)[2]), Tail(e))

-----------------------------------------------------------------------------
(* Resources (server.py 169-246) *)

get_parameter_names ==
    << "source_desc", "sector_desc", "group_desc", "commodity_desc",
       "class_desc", "prodn_practice_desc", "util_practice_desc",
       "statisticcat_desc", "unit_desc", "short_desc", "domain_desc",
       "domaincat_desc",
       "agg_level_desc", "state_ansi", "state_fips_code", "state_alpha",
       "state_name", "asd_code", "asd_desc", "county_ansi", "county_code",
       "county_name", "region_desc", "zip_5", "watershed_code",
       "watershed_desc", "congr_district_code", "country_code",
       "country_name", "location_desc",
       "year", "freq_desc", "begin_code", "end_code",
       "reference_period_desc", "week_ending", "load_time" >>

get_operator_names ==
    << "__LE", "__LT", "__GT", "__GE", "__LIKE", "__NOT_LIKE", "__NE" >>

(* The three time shapes (server.py 116-130): the keys each TypedDict
   requires and the keys it allows. *)
TimeYearQuery == [required |-> {"year"}, allowed |-> {"year"}]

TimeLoadTimeQuery == [required |-> {"load_time"}, allowed |-> {"load_time"}]

TimePeriodQuery ==
    [required |-> {"freq_desc", "begin_code", "end_code"},
     allowed  |-> {"freq_desc", "begin_code", "end_code",
                   "reference_period_desc", "week_ending"}]

-----------------------------------------------------------------------------
(* What the caller and the downstream service may send. *)

(* All dicts of n items with keys in K and values in V. *)
Dicts(K, V, n) ==
    { d \in [1..n -> K \X V] : \A i, j \in 1..n : i # j => d[i][1] # d[j][1] }

(* The function bodies accept any mapping: the field names of the schema,
   names with an operator appended, names of another category, names the
   schema does not know, and the names of the two fixed parameters. *)
CommodityKeys == {"commodity_desc", "year__GE", "not_a_field", "key", "format"}

LocationKeys == {"state_alpha", "year__GE", "not_a_field"}

TimeKeys == {"year", "freq_desc", "year__GE", "not_a_field"}

CommodityValues == {"CORN"}

LocationValues == {"IA"}

TimeValues == {"2020"}

Queries ==
    UNION { { [commodity |-> c, location |-> l, time |-> t] :
                c \in Dicts(CommodityKeys, CommodityValues, n[1]),
                l \in Dicts(LocationKeys, LocationValues, n[2]),
                t \in Dicts(TimeKeys, TimeValues, n[3]) } :
            n \in { m \in (0..MaxFields) \X (0..MaxFields) \X (0..MaxFields) :
                      m[1] + m[2] + m[3] <= MaxFields } }

ParameterQueries ==
    { << <<"param", p>> >> : p \in {"commodity_desc", "year", "not_a_field"} }

Environments ==
    [ NASS_API_KEY : {None, "SECRET"},
      NASS_API_FORMAT : {None, "JSON", "YAML", "csv"} ]

StatusCodes == {200, 204, 301, 413, 500}

ContentTypes ==
    { <<"a","p","p","l","i","c","a","t","i","o","n","/","j","s","o","n">>,
      <<"A","p","p","l","i","c","a","t","i","o","n","/","J","S","O","N">>,
      <<"t","e","x","t","/","c","s","v">>,
      <<"t","e","x","t","/","x","m","l">> }

Headers == { <<>> } \cup { << <<"content-type", c>> >> : c \in ContentTypes }

Bodies == {"{}", "[]", "a,b", ""}

Responses ==
    [ status_code : StatusCodes, headers : Headers, text : Bodies ]

(* The scenario query of the documentation and the empty query. *)
ScenarioQueries ==
    { [commodity |-> << <<"commodity_desc", "CORN">> >>,
       location  |-> << <<"state_alpha", "IA">> >>,
       time      |-> << <<"year", "2020">> >>],
      [commodity |-> <<>>, location |-> <<>>, time |-> <<>>] }

(* A few answers of the service: delimited text, a JSON document, a JSON
   content type on a body that is not JSON, and an oversized-request error. *)
ScenarioResponses ==
    { r \in Responses :
        \/ /\ r.status_code = 200 /\ r.text = "a,b"
           /\ r.headers = << <<"content-type", <<"t","e","x","t","/","c","s","v">> >> >>
        \/ /\ r.status_code = 200 /\ r.text \in {"{}", ""}
           /\ r.headers # <<>>
           /\ r.headers[1][2][1] = "a" /\ r.headers[1][2][2] = "p"
        \/ /\ r.status_code = 413 /\ r.text = "" /\ r.headers = <<>> }

-----------------------------------------------------------------------------
(* Strings as httpx and json see them *)

UpperCase == <<"A","B","C","D","E","F","G","H","I","J","K","L","M",
               "N","O","P","Q","R","S","T","U","V","W","X","Y","Z">>

LowerCase == <<"a","b","c","d","e","f","g","h","i","j","k","l","m",
               "n","o","p","q","r","s","t","u","v","w","x","y","z">>

(* str.lower() *)
lower(s) ==
    [i \in 1..Len(s) |->
        IF \E n \in 1..26 : UpperCase[n] = s[i]
        THEN LowerCase[CHOOSE n \in 1..26 : UpperCase[n] = s[i]]
        ELSE s[i]]

(* sub in s *)
Contains(sub, s) ==
    \E i \in 1..(Len(s) + 1) :
        /\ i + Len(sub) - 1 <= Len(s)
        /\ SubSeq(s, i, i + Len(sub) - 1) = sub

(* A status test that takes everything below 400 for a success. *)
is_success_below_400(r) == r.status_code < 400

(* response.is_success: a 2xx status. *)
is_success(r) == 200 <= r.status_code /\ r.status_code <= 299

(* json.loads on the bodies the model draws: the empty object and the
   empty array decode, every other body is not JSON. *)
IsJson(text) == text \in {"{}", "[]"}

json_loads(text) ==
    IF text = "{}" THEN [pytype |-> "dict", items |-> <<>>]
    ELSE [pytype |-> "list", items |-> <<>>]

-----------------------------------------------------------------------------
(* The state between invocations *)

NoArg == [commodity |-> <<>>, location |-> <<>>, time |-> <<>>, parameter |-> <<>>]

NoRequest == [url |-> None, params |-> <<>>]

NoResponse == [status_code |-> 0, headers |-> <<>>, text |-> None]

NoResult == [kind |-> "none"]

QueryArg(query) ==
    [commodity |-> query.commodity, location |-> query.location,
     time |-> query.time, parameter |-> <<>>]

Init ==
    /\ environ \in Environments
    /\ proc = "load"
    /\ API_KEY = None
    /\ FORMAT = None
    /\ tool = "none"
    /\ arg = NoArg
    /\ stage = "idle"
    /\ request = NoRequest
    /\ sent = <<>>
    /\ response = NoResponse
    /\ result = NoResult

-----------------------------------------------------------------------------
(* Loading the module and starting the server (server.py 9-21, 301-307):
   the credential and the format are read from the environment, and a format
   outside AVAILABLE_FORMATS raises ValueError before the server exists. *)
Load ==
    /\ proc = "load"
    /\ API_KEY' = getenv(environ, "NASS_API_KEY")
    /\ FORMAT' = getenv_default(environ, "NASS_API_FORMAT", "CSV")
    /\ proc' = IF InList(FORMAT', AVAILABLE_FORMATS) THEN "serving" ELSE "failed"
    /\ UNCHANGED <<environ, tool, arg, stage, request, sent, response, result>>

-----------------------------------------------------------------------------
(* api (server.py 140-155) *)

(* The credential merged after the caller's parameters:
   {**params, "key": API_KEY}. *)
full_params_key_last(key, params) == Unpack(params, << <<"key", key>> >>)

(* full_params = {"key": API_KEY, **params} *)
full_params(key, params) == Unpack(<< <<"key", key>> >>, params)

(* api up to httpx.get: the request is on the wire and the coroutine waits
   for the answer. *)
api(endpoint, params) ==
    /\ request' = [url |-> URL(endpoint), params |-> full_params(API_KEY, params)]
    /\ sent' = <<URL(endpoint)>>
    /\ stage' = "awaiting"
    /\ response' = NoResponse
    /\ result' = NoResult

(* What api returns or raises for the response r. *)
api_result(r) ==
    IF ~is_success(r)
    THEN [kind |-> "return",
          value |-> [pytype |-> "dict", status |-> "error",
                     message |-> r.text, http_status |-> r.status_code]]
    ELSE IF Contains(<<"j","s","o","n">>,
                     lower(GetDefault(r.headers, "content-type", <<>>)))
    THEN IF IsJson(r.text)
         THEN [kind |-> "return", value |-> json_loads(r.text)]
         ELSE [kind |-> "raise", exception |-> "JSONDecodeError"]
    ELSE [kind |-> "return", value |-> [pytype |-> "str", value |-> r.text]]

(* A dispatcher that asks again when the service answers with an error. *)
api_response_retry(r) ==
    IF ~is_success(r) /\ Len(sent) < 2
    THEN /\ stage = "awaiting"
         /\ sent' = Append(sent, request.url)
         /\ UNCHANGED <<environ, proc, API_KEY, FORMAT, tool, arg, stage,
                        request, response, result>>
    ELSE /\ stage = "awaiting"
         /\ response' = r
         /\ result' = api_result(r)
         /\ stage' = IF result'.kind = "return" THEN "returned" ELSE "raised"
         /\ request' = NoRequest
         /\ arg' = NoArg
         /\ UNCHANGED <<environ, proc, API_KEY, FORMAT, tool, sent>>

(* The service answers: api normalises the response, the tool returns what
   api returned (or the exception propagates), and the locals are gone. *)
api_response(r) ==
    /\ stage = "awaiting"
    /\ response' = r
    /\ result' = api_result(r)
    /\ stage' = IF result'.kind = "return" THEN "returned" ELSE "raised"
    /\ request' = NoRequest
    /\ arg' = NoArg
    /\ UNCHANGED <<environ, proc, API_KEY, FORMAT, tool, sent>>

(* httpx.get raises (no connection, timeout): no response exists and the
   exception leaves api and the tool. *)
httpx_error ==
    /\ stage = "awaiting"
    /\ response' = NoResponse
    /\ result' = [kind |-> "raise", exception |-> "TransportError"]
    /\ stage' = "raised"
    /\ request' = NoRequest
    /\ arg' = NoArg
    /\ UNCHANGED <<environ, proc, API_KEY, FORMAT, tool, sent>>

-----------------------------------------------------------------------------
(* Tools (server.py 251-296) *)

(* params = {"format": FORMAT, **commodity, **location, **time} *)
dataset_params(format, query) ==
    Unpack(Unpack(Unpack(<< <<"format", format>> >>, query.commodity),
                  query.location),
           query.time)

(* params = {**commodity, **location, **time} *)
count_params(query) ==
    Unpack(Unpack(Unpack(<<>>, query.commodity), query.location), query.time)

get_full_dataset(query) ==
    /\ proc = "serving"
    /\ stage # "awaiting"
    /\ tool' = "get_full_dataset"
    /\ arg' = QueryArg(query)
    /\ api("api_GET", dataset_params(FORMAT, query))
    /\ UNCHANGED <<environ, proc, API_KEY, FORMAT>>

get_db_record_count(query) ==
    /\ proc = "serving"
    /\ stage # "awaiting"
    /\ tool' = "get_db_record_count"
    /\ arg' = QueryArg(query)
    /\ api("get_counts", count_params(query))
    /\ UNCHANGED <<environ, proc, API_KEY, FORMAT>>

get_param_values(parameter) ==
    /\ proc = "serving"
    /\ stage # "awaiting"
    /\ tool' = "get_param_values"
    /\ arg' = [NoArg EXCEPT !.parameter = parameter]
    /\ api("get_param_values", Unpack(<<>>, parameter))
    /\ UNCHANGED <<environ, proc, API_KEY, FORMAT>>

-----------------------------------------------------------------------------
(* Specifications *)

ToolCall(QS) ==
    \/ \E query \in QS : get_full_dataset(query)
    \/ \E query \in QS : get_db_record_count(query)
    \/ \E parameter \in ParameterQueries : get_param_values(parameter)

Answer(RS) ==
    \/ \E r \in RS : api_response(r)
    \/ httpx_error

(* Every query of the bounded input space, a few answers of the service. *)
Next == Load \/ ToolCall(Queries) \/ Answer(ScenarioResponses)

Spec == Init /\ [][Next]_vars

(* A few queries, every answer of the bounded response space. *)
NextDispatch == Load \/ ToolCall(ScenarioQueries) \/ Answer(Responses)

SpecDispatch == Init /\ [][NextDispatch]_vars

-----------------------------------------------------------------------------
(* Notions the properties are stated in *)

QueryTools == {"get_full_dataset", "get_db_record_count"}

Dispatched == stage = "awaiting" /\ tool \in QueryTools

(* The keys of a sequence with every repetition after the first removed. *)
RECURSIVE FirstOccurrences(_)
FirstOccurrences(ks) ==
    IF ks = <<>> THEN <<>>
    ELSE LET init == FirstOccurrences(SubSeq(ks, 1, Len(ks) - 1))
             last == ks[Len(ks)]
         IN  IF InList(last, init) THEN init ELSE Append(init, last)

(* The field name a key is built on: the key without the operator appended
   to it, when it is a parameter name followed by an operator. *)
BaseName(k) ==
    LET built(i) == \E j \in 1..Len(get_operator_names) :
                        get_parameter_names[i] \o get_operator_names[j] = k
    IN  IF \E i \in 1..Len(get_parameter_names) : built(i)
        THEN get_parameter_names[CHOOSE i \in 1..Len(get_parameter_names) : built(i)]
        ELSE k

IsOperatorKey(k) == BaseName(k) # k

KeySet(d) == { d[i][1] : i \in 1..Len(d) }

BaseSet(d) == { BaseName(d[i][1]) : i \in 1..Len(d) }

HasUnknownField(a) ==
    \E b \in BaseSet(a.commodity) \cup BaseSet(a.location) \cup BaseSet(a.time) :
        ~InList(b, get_parameter_names)

ValidTimeShape(t) ==
    \E shape \in {TimeYearQuery, TimeLoadTimeQuery, TimePeriodQuery} :
        /\ shape.required \subseteq BaseSet(t)
        /\ BaseSet(t) \subseteq shape.allowed

RepeatsBaseName(a) ==
    \/ BaseSet(a.commodity) \cap BaseSet(a.location) # {}
    \/ BaseSet(a.commodity) \cap BaseSet(a.time) # {}
    \/ BaseSet(a.location) \cap BaseSet(a.time) # {}

JsonContentType ==
    { <<"a","p","p","l","i","c","a","t","i","o","n","/","j","s","o","n">>,
      <<"A","p","p","l","i","c","a","t","i","o","n","/","J","S","O","N">> }

DeclaresJson(r) == r.headers # <<>> /\ r.headers[1][2] \in JsonContentType

Answered == response # NoResponse

Envelope(r) ==
    [pytype |-> "dict", status |-> "error",
     message |-> r.text, http_status |-> r.status_code]

-----------------------------------------------------------------------------
(* C1, as stated: the parameters get_full_dataset hands to the request are
   format, then key, then the commodity, location and time fields, each
   section in the caller's order. *)
C1_FormatThenKey ==
    (stage = "awaiting" /\ tool = "get_full_dataset") =>
        Keys(request.params) =
            <<"format", "key">> \o Keys(arg.commodity) \o Keys(arg.location)
                \o Keys(arg.time)

(* C1, amended: the parameters are key, then format, then the commodity,
   location and time fields, each section in the caller's order; a name that
   occurs again (in a later section, or a field named key or format) stays
   where it first occurred. *)
C1_KeyThenFormat ==
    (stage = "awaiting" /\ tool = "get_full_dataset") =>
        Keys(request.params) =
            FirstOccurrences(<<"key", "format">> \o Keys(arg.commodity)
                                \o Keys(arg.location) \o Keys(arg.time))

C1_Witness ==
    /\ stage = "awaiting" /\ tool = "get_full_dataset"
    /\ Keys(arg.commodity) = <<"year__GE", "commodity_desc">>
    /\ Keys(arg.time) = <<"year">>
    /\ Keys(request.params) = <<"key", "format", "year__GE", "commodity_desc", "year">>

(* C2: when the service answers with a status outside 2xx, the tool returns
   the envelope {status: "error", message: body, http_status: code} and
   raises nothing, whatever the content type. *)
C2_ErrorEnvelope ==
    (Answered /\ response.status_code \notin 200..299) =>
        /\ stage = "returned"
        /\ result = [kind |-> "return", value |-> Envelope(response)]

C2_Witness ==
    /\ Answered /\ response.status_code = 413 /\ DeclaresJson(response)
    /\ response.text = "a,b"
    /\ stage = "returned" /\ result.value.http_status = 413

(* C3: for a 2xx answer the tool returns the parsed structure when the
   content type declares JSON and the raw text otherwise. *)
C3_DecodeByContentType ==
    (Answered /\ response.status_code \in 200..299) =>
        /\ stage = "returned"
        /\ result.kind = "return"
        /\ result.value = IF DeclaresJson(response)
                          THEN json_loads(response.text)
                          ELSE [pytype |-> "str", value |-> response.text]

(* C4: a query with a field name the registry does not list fails with
   UnknownParameter, in whichever section the field is, for both tools. *)
C4_UnknownParameter ==
    (tool \in QueryTools /\ stage # "idle" /\ HasUnknownField(arg)) =>
        /\ stage = "raised"
        /\ result = [kind |-> "raise", exception |-> "UnknownParameter"]

(* C5: a query whose time filter is none of the three shapes (fields of two
   shapes mixed, or a required field missing) is never dispatched. *)
C5_InvalidTimeShape == Dispatched => ValidTimeShape(arg.time)

(* C6: a query that uses one base field name in two sub-filters is never
   dispatched. *)
C6_DuplicateField == Dispatched => ~RepeatsBaseName(arg)

(* C7: every invocation issues exactly one request, to the endpoint of its
   tool, and no outcome adds a second one. *)
C7_OneRequest ==
    stage # "idle" =>
        sent = << URL(CASE tool = "get_full_dataset" -> "api_GET"
                        [] tool = "get_db_record_count" -> "get_counts"
                        [] tool = "get_param_values" -> "get_param_values") >>

C7_Witness ==
    /\ tool = "get_db_record_count" /\ stage = "returned"
    /\ Answered /\ response.status_code = 413
    /\ sent = <<"https://quickstats.nass.usda.gov/api/get_counts">>

(* C8: every query entry keyed field+operator is in the compiled request
   under that very key, with its value unchanged. *)
C8_OperatorKeyVerbatim ==
    Dispatched =>
        \A d \in {arg.commodity, arg.location, arg.time} :
            \A i \in 1..Len(d) :
                IsOperatorKey(d[i][1]) =>
                    /\ Has(request.params, d[i][1])
                    /\ Get(request.params, d[i][1]) = d[i][2]

(* C9: with an invalid format selection or without a credential the process
   never serves. *)
C9_FatalConfiguration ==
    (\/ environ.NASS_API_KEY = None
     \/ /\ environ.NASS_API_FORMAT # None
        /\ ~InList(environ.NASS_API_FORMAT, AVAILABLE_FORMATS)) =>
        proc # "serving"

(* C10: the value sent under key is the configured credential and, for
   get_full_dataset, the value sent under format is the configured format,
   whatever the sub-filters hold. *)
C10_FixedParameters ==
    Dispatched =>
        /\ Get(request.params, "key") = API_KEY
        /\ tool = "get_full_dataset" => Get(request.params, "format") = FORMAT

=============================================================================
